---- MODULE Spec2Model ----
(***************************************************************************)
(* A model of the torproject crate: the Tor process supervisor (tor.rs)    *)
(* and the Tor Expert Bundle downloader (downloader.rs).                   *)
(*                                                                         *)
(* Spec      : one Tor instance after setup; the caller's run / kill /     *)
(*             drop, the spawned children, their stdout pipes and the      *)
(*             background wait tasks.                                      *)
(* SpecSetup : one caller of Tor::setup_with_version, call after call:     *)
(*             version resolution, fetch, store and extraction, step by    *)
(*             step on the download directory.                             *)
(* SpecRace  : the same steps of several callers, interleaved on one       *)
(*             download directory.                                         *)
(* SpecResolve : DownloadOptions::build on every version selection and     *)
(*             every index listing of a bounded set.                       *)
(***************************************************************************)
EXTENDS Integers, Sequences, FiniteSets, TLC

\* ------------------------------------------------------------------ bounds
MaxRuns  == 2   \* calls of Tor::run that reach Command::spawn
MaxPid   == 2   \* process identifiers the OS hands out: 1..MaxPid
PipeCap  == 1   \* lines the stdout pipe holds before the writer blocks

Pids == 1..MaxPid

\* Option<T>: None is the empty sequence, Some(x) the one-element sequence.
None == << >>
Some(x) == << x >>

\* ------------------------------------------------------------ tor.rs data
\* const TOR_BOOTSTRAPED_LOG, as a sequence of words.
TOR_BOOTSTRAPED_LOG == << "Bootstrapped", "100%", "(done):", "Done" >>

\* What a child may print: a line is text (a sequence of words) that is
\* valid UTF-8 or not.
Lines ==
  { [utf8 |-> TRUE,  text |-> << "[notice]" >> \o TOR_BOOTSTRAPED_LOG],
    [utf8 |-> TRUE,  text |-> << "[notice]", "Bootstrapped", "50%", "(done):", "Done" >>],
    [utf8 |-> FALSE, text |-> << >>] }

\* str::contains: needle occurs in hay as a contiguous run.
Contains(hay, needle) ==
  \E i \in 0..(Len(hay) - Len(needle)) :
     \A j \in 1..Len(needle) : hay[i + j] = needle[j]

VARIABLES
  pid,        \* Tor.pid : Option<u32>
  pc,         \* where the caller's run future is: "idle" or "reading"
  children,   \* the processes spawned by run, in spawn order
  foreign,    \* Some([pid, mine]): an unrelated process, or None
  stdoutBuf,  \* lines in the stdout pipe of the child run is reading
  loopExit,   \* how the read loop of the last run ended
  runResult,  \* what the last run returned to the caller
  killResult, \* what the last explicit kill returned to the caller
  lastSignal, \* the pid the last kill() call signalled, None if it sent none
  dropped,    \* the Tor value was dropped
  discarded,  \* the Result that Drop threw away
  panicked    \* the caller's thread panicked

VARIABLES
  homeDir,     \* dirs::home_dir() is Some
  dirExists,   \* the download directory exists
  dirCreatable,\* create_dir of the download directory is permitted
  files,       \* tarball name -> None, or Some([ino, data]) for the file there
  installed,   \* what the last unpack left in the download directory
  cl,          \* the callers of Tor::setup_with_version, one record each
  calls        \* calls of setup_with_version made so far

torVars == << pid, pc, children, foreign, stdoutBuf, loopExit, runResult,
              killResult, lastSignal, dropped, discarded, panicked >>

VARIABLES
  options,     \* DownloadOptions.version_selection : Option<VersionSelection>
  index,       \* what the remote index answers to a GET
  resolved,    \* what Downloader::resolve_version returned
  indexCalls   \* GET requests the remote index has received

dlVars == << homeDir, dirExists, dirCreatable, files, installed, cl, calls >>

rvVars == << options, index, resolved, indexCalls >>

vars == << torVars, dlVars, rvVars >>

\* --------------------------------------------------------------- helpers
NoResult == [status |-> "none", pid |-> None, err |-> ""]
Pending == [status |-> "pending", pid |-> None, err |-> ""]
Cancelled == [status |-> "cancelled", pid |-> None, err |-> ""]
Ok(p) == [status |-> "Ok", pid |-> Some(p), err |-> ""]
Err(e) == [status |-> "Err", pid |-> None, err |-> e]

\* The child whose stdout the pending run reads: the last one spawned.
Cur == Len(children)

\* A process with identifier p exists (running or not yet reaped).
InUse(p) ==
  \/ foreign # None /\ foreign[1].pid = p
  \/ \E c \in DOMAIN children : children[c].pid = p /\ children[c].st # "reaped"

Live == { c \in DOMAIN children : children[c].st = "running" }

\* Dropping `reader` (the Lines over the ChildStdout) closes the read end.
CloseReader(ch) ==
  [c \in DOMAIN ch |-> IF c = Len(ch) THEN [ch[c] EXCEPT !.rd = "closed"] ELSE ch[c]]

\* ------------------------------------------------------------- Tor::run
\* The identifier is not stored.
RecordPidForgotten(old, p) == old

\* self.pid = Some(pid)
RecordPid(old, p) == Some(p)

\* Command::new(tor_bin).stdout(piped).spawn(), child.id(), self.pid = Some(pid),
\* child.stdout.take(), tokio::spawn(child.wait()): everything up to the first
\* await of reader.next_line().
RunSpawn(ok, p) ==
  /\ UNCHANGED << dlVars, rvVars >>
  /\ ~dropped /\ ~panicked /\ pc = "idle"
  /\ Len(children) < MaxRuns
  /\ IF ok
       THEN /\ ~InUse(p)
            /\ children' = Append(children,
                 [pid |-> p, st |-> "running", rd |-> "open",
                  wfail |-> FALSE, sig |-> FALSE])
            /\ pid' = RecordPid(pid, p)
            /\ pc' = "reading"
            /\ stdoutBuf' = << >>
            /\ loopExit' = "none"
            /\ runResult' = Pending
       ELSE /\ runResult' = Err("Failed to spawn Tor Process")
            /\ UNCHANGED << pid, pc, children, stdoutBuf, loopExit >>
  /\ UNCHANGED << foreign, killResult, lastSignal, dropped, discarded, panicked >>

\* What run returns when the read loop is left through `how`.
RunReturn(how, p) ==
  IF how = "err" THEN Err("stream did not contain valid UTF-8") ELSE Ok(p)

\* One turn of `while let Some(line) = reader.next_line().await?` on a line
\* that is in the pipe.
RunReadLine ==
  /\ UNCHANGED << dlVars, rvVars >>
  /\ pc = "reading" /\ stdoutBuf # << >>
  /\ LET line == Head(stdoutBuf)
         how  == IF ~line.utf8 THEN "err"
                 ELSE IF Contains(line.text, TOR_BOOTSTRAPED_LOG) THEN "break"
                 ELSE "none"
     IN IF how = "none"
          THEN /\ stdoutBuf' = Tail(stdoutBuf)
               /\ UNCHANGED << pc, children, loopExit, runResult >>
          ELSE /\ stdoutBuf' = << >>
               /\ pc' = "idle"
               /\ children' = CloseReader(children)
               /\ loopExit' = how
               /\ runResult' = RunReturn(how, children[Cur].pid)
  /\ UNCHANGED << pid, foreign, killResult, lastSignal, dropped, discarded, panicked >>

\* next_line() on an empty pipe whose write end is closed: Ok(None), the loop
\* ends and run goes on to its last line.
RunReadEof ==
  /\ UNCHANGED << dlVars, rvVars >>
  /\ pc = "reading" /\ stdoutBuf = << >>
  /\ children[Cur].st # "running"
  /\ pc' = "idle"
  /\ children' = CloseReader(children)
  /\ loopExit' = "eof"
  /\ runResult' = RunReturn("eof", children[Cur].pid)
  /\ UNCHANGED << pid, foreign, stdoutBuf, killResult, lastSignal, dropped,
                  discarded, panicked >>

\* The caller drops the run future at its await (a timeout, a select).
RunCancel ==
  /\ UNCHANGED << dlVars, rvVars >>
  /\ pc = "reading"
  /\ pc' = "idle"
  /\ children' = CloseReader(children)
  /\ stdoutBuf' = << >>
  /\ runResult' = Cancelled
  /\ UNCHANGED << pid, foreign, loopExit, killResult, lastSignal, dropped,
                  discarded, panicked >>

\* ------------------------------------------------------------ Tor::kill
\* kill(2) is permitted on the process that holds p: the supervisor's own
\* children always, an unrelated process when it runs as the same user.
MaySignal(p) == ~(foreign # None /\ foreign[1].pid = p /\ ~foreign[1].mine)

\* The error of kill(2) is thrown away instead of being returned with `?`.
KillOutcomeIgnoringErrno(rec) ==
  IF rec = None THEN "No process for Tor avaialable." ELSE "Ok"

\* The Result of kill() on a Tor whose pid field is `rec`:
\* nix kill(pid, SIGKILL)? when an identifier is recorded, bail! otherwise.
KillOutcome(rec) ==
  IF rec = None THEN "No process for Tor avaialable."
  ELSE IF ~InUse(rec[1]) THEN "ESRCH"
  ELSE IF ~MaySignal(rec[1]) THEN "EPERM"
  ELSE "Ok"

\* kill takes &self: the pid field is the same after the call.
PidAfterKill(rec) == rec

\* SIGKILL on the process that holds the recorded identifier, if any.
ChildrenAfterKill(rec) ==
  [c \in DOMAIN children |->
     IF KillOutcome(rec) = "Ok" /\ children[c].pid = rec[1] /\ children[c].st # "reaped"
       THEN [children[c] EXCEPT !.st = "zombie", !.sig = TRUE]
       ELSE children[c]]

ForeignAfterKill(rec) ==
  IF KillOutcome(rec) = "Ok" /\ foreign # None /\ foreign[1].pid = rec[1]
    THEN None ELSE foreign

\* The identifier the call handed to kill(2), if it made the call at all.
SignalOfKill(rec) == rec

\* An explicit tor.kill() by the caller. The run future borrows the Tor
\* mutably, so kill is callable only while no run is pending.
Kill ==
  /\ UNCHANGED << dlVars, rvVars >>
  /\ ~dropped /\ ~panicked /\ pc = "idle"
  /\ killResult' = KillOutcome(pid)
  /\ pid' = PidAfterKill(pid)
  /\ children' = ChildrenAfterKill(pid)
  /\ foreign' = ForeignAfterKill(pid)
  /\ lastSignal' = SignalOfKill(pid)
  /\ UNCHANGED << pc, stdoutBuf, loopExit, runResult, dropped, discarded, panicked >>

\* ---------------------------------------------------------- Drop for Tor
\* self.kill().unwrap() in drop.
DropUnwraps(res) == res # "Ok"

\* `let _ = self.kill();` : whether the caller's thread panics on `res`.
DropPanics(res) == FALSE

Drop ==
  /\ UNCHANGED << dlVars, rvVars >>
  /\ ~dropped /\ ~panicked /\ pc = "idle"
  /\ dropped' = TRUE
  /\ discarded' = KillOutcome(pid)
  /\ panicked' = DropPanics(KillOutcome(pid))
  /\ pid' = PidAfterKill(pid)
  /\ children' = ChildrenAfterKill(pid)
  /\ foreign' = ForeignAfterKill(pid)
  /\ lastSignal' = SignalOfKill(pid)
  /\ UNCHANGED << pc, stdoutBuf, loopExit, runResult, killResult >>

\* ------------------------------------------------- the child and the OS
\* The child prints a line. With the read end held by run's reader the line
\* goes into the pipe (the writer waits while the pipe is full); with the
\* read end closed the write fails (EPIPE / SIGPIPE).
ChildWrite(c, line) ==
  /\ UNCHANGED << dlVars, rvVars >>
  /\ c \in DOMAIN children
  /\ children[c].st = "running"
  /\ IF children[c].rd = "open"
       THEN /\ Len(stdoutBuf) < PipeCap
            /\ stdoutBuf' = Append(stdoutBuf, line)
            /\ UNCHANGED children
       ELSE /\ children' = [children EXCEPT ![c].wfail = TRUE]
            /\ UNCHANGED stdoutBuf
  /\ UNCHANGED << pid, pc, foreign, loopExit, runResult, killResult, lastSignal, dropped, discarded, panicked >>

\* The child exits on its own; its end of the pipe closes.
ChildExit(c) ==
  /\ UNCHANGED << dlVars, rvVars >>
  /\ c \in DOMAIN children
  /\ children[c].st = "running"
  /\ children' = [children EXCEPT ![c].st = "zombie"]
  /\ UNCHANGED << pid, pc, foreign, stdoutBuf, loopExit, runResult, killResult,
                  lastSignal, dropped, discarded, panicked >>

\* tokio::spawn(async move { child.wait().await.expect(..) }): the background
\* task reaps the exited child; its identifier is free again. Of a reaped
\* child the record keeps the identifier and whether it was signalled.
WaitReap(c) ==
  /\ UNCHANGED << dlVars, rvVars >>
  /\ c \in DOMAIN children
  /\ children[c].st = "zombie"
  /\ children' = [children EXCEPT ![c].st = "reaped", ![c].wfail = FALSE]
  /\ UNCHANGED << pid, pc, foreign, stdoutBuf, loopExit, runResult, killResult,
                  lastSignal, dropped, discarded, panicked >>

\* An unrelated process starts under the identifier the Tor has on record,
\* free again since the child was reaped (kill looks at no other
\* identifier), or such a process ends.
ForeignSpawn(p, mine) ==
  /\ UNCHANGED << dlVars, rvVars >>
  /\ ~InUse(p)
  /\ pid = Some(p)
  /\ foreign = None
  /\ foreign' = Some([pid |-> p, mine |-> mine])
  /\ UNCHANGED << pid, pc, children, stdoutBuf, loopExit, runResult, killResult,
                  lastSignal, dropped, discarded, panicked >>

ForeignExit ==
  /\ UNCHANGED << dlVars, rvVars >>
  /\ foreign # None
  /\ foreign' = None
  /\ UNCHANGED << pid, pc, children, stdoutBuf, loopExit, runResult, killResult,
                  lastSignal, dropped, discarded, panicked >>

\* ================================================ lib.rs, downloader.rs
\* Text is a sequence of tokens: a number, or a piece of text.
N(k) == [n |-> k, s |-> ""]
S(x) == [n |-> -1, s |-> x]
IsNum(t) == t.n >= 0

Dot == S(".")
Dash == S("-")
Slash == S("/")

\* pub(crate) const DEFAULT_VERSION: &str = "14.0.4";
DEFAULT_VERSION == << N(14), Dot, N(0), Dot, N(4) >>

\* enum VersionSelection { Version(String), Latest, Stable }
Version(v) == [tag |-> "Version", v |-> v]
Latest == [tag |-> "Latest", v |-> << >>]
Stable == [tag |-> "Stable", v |-> << >>]

\* impl Default for VersionSelection
DefaultSelection == Version(DEFAULT_VERSION)

\* impl Display for Target
TargetDisplay(target) ==
  CASE target = "AndroidAarch64" -> "android-aarch64"
    [] target = "AndroidArmv7"   -> "android-armv7"
    [] target = "AndroidX86"     -> "android-x86"
    [] target = "AndroidX8664"   -> "android-x86_64"
    [] target = "GnuLinuxI686"   -> "linux-i686"
    [] target = "GnuLinuxX8664"  -> "linux-x86_64"
    [] target = "MacOSAarch64"   -> "macos-aarch64"
    [] target = "MacOSX8664"     -> "macos-x86_64"
    [] target = "WindowsI686"    -> "windows-i686"
    [] target = "WindowsX8664"   -> "windows-x86_64"

\* impl Default for Target, on the x86_64 linux build.
DefaultTarget == "GnuLinuxX8664"

\* Downloader::tarball_name
TarballName(target, version) ==
  << S("tor-expert-bundle-"), S(TargetDisplay(target)), Dash >> \o version
     \o << S(".tar.gz") >>

\* ------------------------------------------------ the remote index
V_14_0_1 == << N(14), Dot, N(0), Dot, N(1) >>
V_14_5_0_alpha == << N(14), Dot, N(5), Dot, N(0), Dash, S("alpha") >>

\* The href attributes of the anchors of the index page, in page order.
IndexPages ==
  { << << S("?C=N;O=D") >>, << S(".."), Slash >>, V_14_0_1 \o << Slash >>,
       DEFAULT_VERSION \o << Slash >>, V_14_5_0_alpha \o << Slash >> >>,
    << << S(".."), Slash >>, V_14_5_0_alpha \o << Slash >> >>,
    << << S(".."), Slash >> >> }

\* What the GET of the index gives: a transport error, or a page.
IndexReplies ==
  { [ok |-> FALSE, hrefs |-> << >>] } \cup { [ok |-> TRUE, hrefs |-> h] : h \in IndexPages }

\* str::trim_end_matches('/')
RECURSIVE TrimEndSlashes(_)
TrimEndSlashes(t) ==
  IF t # << >> /\ t[Len(t)] = Slash THEN TrimEndSlashes(SubSeq(t, 1, Len(t) - 1)) ELSE t

\* The filter_map of fetch_tor_versions over the hrefs.
RECURSIVE FetchTorVersions(_)
FetchTorVersions(hrefs) ==
  IF hrefs = << >> THEN << >>
  ELSE LET href == Head(hrefs)
           rest == FetchTorVersions(Tail(hrefs))
       IN IF href # << >> /\ href[Len(href)] = Slash /\ href # << S(".."), Slash >>
            THEN << TrimEndSlashes(href) >> \o rest
            ELSE rest

\* semver::Version::parse(..).unwrap_or_else(|_| Version::new(0, 0, 0)) on the
\* names of this model: MAJOR.MINOR.PATCH, with one pre-release identifier or none.
SemverParses(v) ==
  /\ Len(v) >= 5 /\ IsNum(v[1]) /\ v[2] = Dot /\ IsNum(v[3]) /\ v[4] = Dot /\ IsNum(v[5])
  /\ (Len(v) = 5 \/ (Len(v) = 7 /\ v[6] = Dash /\ ~IsNum(v[7])))

\* semver::Version::new(0, 0, 0)
Version000 == [major |-> 0, minor |-> 0, patch |-> 0, pre |-> ""]

SemverOrZero(v) ==
     IF SemverParses(v)
       THEN [major |-> v[1].n, minor |-> v[3].n, patch |-> v[5].n,
             pre |-> IF Len(v) = 7 THEN v[7].s ELSE ""]
       ELSE Version000

\* The byte order of the pre-release identifiers the index uses.
PreRank(id) == CASE id = "alpha" -> 1 [] id = "beta" -> 2 [] id = "rc" -> 3 [] OTHER -> 4

\* Ord for semver::Version: -1, 0 or 1. A release is above its pre-releases.
SemverCmp(a, b) ==
  IF a.major # b.major THEN (IF a.major < b.major THEN -1 ELSE 1)
  ELSE IF a.minor # b.minor THEN (IF a.minor < b.minor THEN -1 ELSE 1)
  ELSE IF a.patch # b.patch THEN (IF a.patch < b.patch THEN -1 ELSE 1)
  ELSE IF a.pre = b.pre THEN 0
  ELSE IF a.pre = "" THEN 1
  ELSE IF b.pre = "" THEN -1
  ELSE IF PreRank(a.pre) < PreRank(b.pre) THEN -1 ELSE 1

\* The first name is taken, whatever follows it.
FirstOf(best, rest) == best

\* Iterator::max_by with the comparison of resolve_version: of equal maxima
\* the last one is returned. `best` is the maximum so far.
RECURSIVE MaxBy(_, _)
MaxBy(best, rest) ==
  IF rest = << >> THEN best
  ELSE MaxBy(IF SemverCmp(SemverOrZero(best), SemverOrZero(Head(rest))) = 1
               THEN best ELSE Head(rest),
             Tail(rest))

\* No name is discarded, whatever the selection.
KeepAll(selection, v) == TRUE

\* The filter of resolve_version.
KeepVersion(selection, v) ==
  IF selection.tag = "Stable"
    THEN /\ ~Contains(v, << S("alpha") >>)
         /\ ~Contains(v, << S("beta") >>)
         /\ ~Contains(v, << S("rc") >>)
    ELSE TRUE

\* Downloader::resolve_version: [ok, version, err] for the selection and the
\* reply the index gives if it is asked.
ResolveVersion(selection, reply) ==
  IF selection.tag = "Version" THEN [ok |-> TRUE, version |-> selection.v, err |-> ""]
  ELSE IF ~reply.ok THEN [ok |-> FALSE, version |-> << >>, err |-> "Failed to fetch Tor versions"]
  ELSE LET kept == SelectSeq(FetchTorVersions(reply.hrefs),
                             LAMBDA v : KeepVersion(selection, v))
       IN IF kept = << >>
            THEN [ok |-> FALSE, version |-> << >>, err |-> "No valid versions found"]
            ELSE [ok |-> TRUE, version |-> MaxBy(Head(kept), Tail(kept)), err |-> ""]

\* self.version_selection.unwrap_or_default()
UnwrapOrDefault(opt) == IF opt = None THEN DefaultSelection ELSE opt[1]

\* The index is asked for every selection, also for a pinned version.
IndexRequestsAlways(selection) == 1

\* The calls of fetch_tor_versions that resolve_version makes.
IndexRequests(selection) == IF selection.tag = "Version" THEN 0 ELSE 1

NotResolved == [ok |-> FALSE, version |-> << >>, err |-> "none"]

\* DownloadOptions::build up to `Downloader::resolve_version(..).await?`.
BuildResolves ==
  /\ resolved = NotResolved
  /\ LET selection == UnwrapOrDefault(options)
     IN /\ resolved' = ResolveVersion(selection, index)
        /\ indexCalls' = indexCalls + IndexRequests(selection)
  /\ UNCHANGED << options, index >>
  /\ UNCHANGED << torVars, dlVars >>

\* ------------------------------------------------ the archive endpoint
\* What reqwest::get(download_url) .. .bytes() gives: a transport error
\* before there is a response (status 0) or while its body is read, or the
\* body of the response, whatever its status.
ArchiveReplies ==
  { [ok |-> FALSE, status |-> 0,   body |-> ""],
    [ok |-> FALSE, status |-> 200, body |-> ""],
    [ok |-> TRUE,  status |-> 200, body |-> "tgz_a"],
    [ok |-> TRUE,  status |-> 404, body |-> "html_not_found"] }

\* GzDecoder + Archive::unpack on the file content, a sequence of the
\* pieces written to it: the decoder reads the first gzip member and leaves
\* what follows it unread. None when that is no gzip-compressed tar.
Unpack(data) ==
  IF data # << >> /\ data[1] \in { "tgz_a", "tgz_old" } THEN Some(data[1]) ELSE None

Selections == { DefaultSelection, Latest, Stable }

\* The versions a Downloader of this model can be built with.
Versions ==
  { ResolveVersion(sel, r).version :
      sel \in Selections, r \in { x \in IndexReplies : x.ok } } \ { << >> }

Paths == { TarballName(DefaultTarget, v) : v \in Versions }

\* ------------------------------------------------------------- callers
MaxSetups  == 2   \* calls of Tor::setup_with_version in one behaviour
NumCallers == 2   \* callers that share the download directory

Callers == 1..NumCallers

Stages == { "resolve", "fetch", "store", "extract" }

\* A caller that is in no call: the Downloader of a call and what it fetched
\* are dropped when the call returns; its result and its Tor stay. `again`
\* notes that the call's download began on a directory that an earlier
\* successful download of the same archive had left.
IdleCaller ==
  [pc |-> "idle", sel |-> DefaultSelection, version |-> << >>,
   bytes |-> "", stale |-> FALSE, fd |-> None, done |-> {}, dlres |-> "none", result |-> "none",
   tor |-> None, again |-> FALSE]

\* Downloader::download_tarball_path of caller c's Downloader.
TarballPath(c) == TarballName(DefaultTarget, cl[c].version)

\* Tor::setup_with_version(sel) is called.
SetupCall(c, sel) ==
  /\ cl[c].pc = "idle" /\ calls < MaxSetups
  /\ calls' = calls + 1
  /\ cl' = [cl EXCEPT ![c] = [IdleCaller EXCEPT !.pc = "build", !.sel = sel]]
  /\ UNCHANGED << homeDir, dirExists, dirCreatable, files, installed >>
  /\ UNCHANGED << torVars, rvVars >>

\* Downloader::new_with_options(..).await? : DownloadOptions::build.
Build(c, reply) ==
  /\ cl[c].pc = "build"
  /\ LET r == ResolveVersion(cl[c].sel, reply)
     IN cl' = [cl EXCEPT ![c] =
          IF ~homeDir
            THEN [IdleCaller EXCEPT !.result = "panic: Failed to get default download path"]
          ELSE IF ~r.ok
            THEN [IdleCaller EXCEPT !.result = r.err]
          ELSE [@ EXCEPT !.pc = "fetch", !.version = r.version,
                         !.sel = DefaultSelection, !.done = @ \cup {"resolve"}]]
  /\ UNCHANGED << homeDir, dirExists, dirCreatable, files, installed, calls >>
  /\ UNCHANGED << torVars, rvVars >>

\* The download directory as a successful download() that stored the bytes
\* `b` at `path` leaves it: store_downloaded_assets and decompress_tarball.
AsDownloaded(path, b) ==
  /\ dirExists
  /\ files[path] # None /\ files[path][1].data = << b >>
  /\ installed = Some(b)

\* download() ends with `res`: back in setup_with_version.
DownloadEnds(st, c, res) ==
  [st EXCEPT ![c].pc = "setup_return", ![c].dlres = res, ![c].fd = None]

\* The context of the await that failed: reqwest::get(..).await or .bytes().await
FetchError(reply) ==
  IF reply.status = 0 THEN "Failed to download Tor Expert Bundle from origin."
  ELSE "Failed to retrieve files from response."

\* The errors of the two awaits are dropped; the bytes are what was read.
FetchNeverFails(reply) == FALSE

\* One of the two `?` of the fetch returns the error.
FetchFails(reply) == ~reply.ok

\* reqwest::get(download_url).await.context(..)?.bytes().await.context(..)?.to_vec()
Fetch(c, reply) ==
  /\ cl[c].pc = "fetch"
  /\ cl' = IF ~FetchFails(reply)
             THEN [cl EXCEPT ![c].pc = "ensure_dir", ![c].bytes = reply.body,
                             ![c].done = @ \cup {"fetch"},
                             ![c].again = AsDownloaded(TarballPath(c), reply.body)]
             ELSE DownloadEnds(cl, c, FetchError(reply))
  /\ UNCHANGED << homeDir, dirExists, dirCreatable, files, installed, calls >>
  /\ UNCHANGED << torVars, rvVars >>

\* store_downloaded_assets: if !download_path.exists()
EnsureDir(c) ==
  /\ cl[c].pc = "ensure_dir"
  /\ cl' = [cl EXCEPT ![c].pc = IF dirExists THEN "check_stale" ELSE "create_dir"]
  /\ UNCHANGED << homeDir, dirExists, dirCreatable, files, installed, calls >>
  /\ UNCHANGED << torVars, rvVars >>

\* create_dir(&download_path).context("Failed to create download directory.")?
CreateDir(c) ==
  /\ cl[c].pc = "create_dir"
  /\ IF dirExists \/ ~dirCreatable
       THEN /\ cl' = DownloadEnds(cl, c, "Failed to create download directory.")
            /\ UNCHANGED dirExists
       ELSE /\ dirExists' = TRUE
            /\ cl' = [cl EXCEPT ![c].pc = "check_stale"]
  /\ UNCHANGED << homeDir, dirCreatable, files, installed, calls >>
  /\ UNCHANGED << torVars, rvVars >>

\* The archive of an earlier download is never looked for.
StaleNeverFound(fs, path) == FALSE

\* download_tarball_path.exists()
StaleFound(fs, path) == fs[path] # None

\* if download_tarball_path.exists()
CheckStale(c) ==
  /\ cl[c].pc = "check_stale"
  /\ cl' = [cl EXCEPT ![c].pc = IF StaleFound(files, TarballPath(c)) THEN "remove" ELSE "create"]
  /\ UNCHANGED << homeDir, dirExists, dirCreatable, files, installed, calls >>
  /\ UNCHANGED << torVars, rvVars >>

\* remove_file(&download_tarball_path).context(..)?
RemoveStale(c) ==
  /\ cl[c].pc = "remove"
  /\ IF files[TarballPath(c)] = None
       THEN /\ cl' = DownloadEnds(cl, c, "Failed to delete previous Tor Cached installation.")
            /\ UNCHANGED files
       ELSE /\ files' = [files EXCEPT ![TarballPath(c)] = None]
            /\ cl' = [cl EXCEPT ![c].pc = "create", ![c].stale = TRUE]
  /\ UNCHANGED << homeDir, dirExists, dirCreatable, installed, calls >>
  /\ UNCHANGED << torVars, rvVars >>

\* File::create(path): the file is opened, and emptied, when it exists.
CreateTruncating(fs, path, c) ==
  IF fs[path] # None
    THEN [ok |-> TRUE,
          fs |-> [fs EXCEPT ![path] = Some([fs[path][1] EXCEPT !.data = << >>])],
          fd |-> Some(fs[path][1].ino)]
    ELSE [ok |-> TRUE,
          fs |-> [fs EXCEPT ![path] = Some([ino |-> c, data |-> << >>])],
          fd |-> Some(c)]

\* File::create_new(path) by caller c on the file table `fs`: [ok, fs, fd].
\* O_CREAT | O_EXCL: it fails when the path exists. The new file (inode) is
\* named after the caller that creates it; 0 is a file of an earlier time.
CreateNew(fs, path, c) ==
  IF fs[path] # None
    THEN [ok |-> FALSE, fs |-> fs, fd |-> None]
    ELSE [ok |-> TRUE,
          fs |-> [fs EXCEPT ![path] = Some([ino |-> c, data |-> << >>])],
          fd |-> Some(c)]

\* let mut output = File::create_new(&download_tarball_path).context(..)?
CreateFile(c) ==
  /\ cl[c].pc = "create"
  /\ LET r == CreateNew(files, TarballPath(c), c)
     IN /\ files' = r.fs
        /\ cl' = IF r.ok
                   THEN [cl EXCEPT ![c].pc = "copy", ![c].fd = r.fd]
                   ELSE DownloadEnds(cl, c, "Failed to create output tarball file.")
  /\ UNCHANGED << homeDir, dirExists, dirCreatable, installed, calls >>
  /\ UNCHANGED << torVars, rvVars >>

\* The copy reads from a source that is already used up: nothing is written.
WriteNothing(fs, path, fd, bytes) == fs

\* io::copy(&mut bytes, &mut output): the bytes go to the file the handle fd
\* is open on; that file is at `path` unless it was unlinked meanwhile.
WriteAll(fs, path, fd, bytes) ==
  IF fs[path] # None /\ Some(fs[path][1].ino) = fd
    THEN [fs EXCEPT ![path] = Some([fs[path][1] EXCEPT !.data = Append(@, bytes)])]
    ELSE fs

\* io::copy(..).context("Failed to copy output bytes.")? and the end of
\* store_downloaded_assets; the device may fail the write.
CopyBytes(c, ok) ==
  /\ cl[c].pc = "copy"
  /\ IF ok
       THEN /\ files' = WriteAll(files, TarballPath(c), cl[c].fd, cl[c].bytes)
            /\ cl' = [cl EXCEPT ![c].pc = "extract", ![c].fd = None,
                                ![c].done = @ \cup {"store"}]
       ELSE /\ cl' = DownloadEnds(cl, c, "Failed to copy output bytes.")
            /\ UNCHANGED files
  /\ UNCHANGED << homeDir, dirExists, dirCreatable, installed, calls >>
  /\ UNCHANGED << torVars, rvVars >>

\* decompress_tarball: File::open(tarball_path)?, archive.unpack(&download_path)?
Extract(c) ==
  /\ cl[c].pc = "extract"
  /\ LET f == files[TarballPath(c)]
     IN IF f # None /\ Unpack(f[1].data) # None
          THEN /\ installed' = Unpack(f[1].data)
               /\ cl' = DownloadEnds([cl EXCEPT ![c].done = @ \cup {"extract"}] , c, "Ok")
          ELSE /\ cl' = DownloadEnds(cl, c, IF f = None THEN "No such file or directory"
                                        ELSE "invalid gzip header")
               /\ UNCHANGED installed
  /\ UNCHANGED << homeDir, dirExists, dirCreatable, files, calls >>
  /\ UNCHANGED << torVars, rvVars >>

\* `let _ = downloader.download().await;` : the error is dropped.
SetupIgnoresError(res) == "Ok"

\* `downloader.download().await?` in setup_with_version: what setup makes of
\* the Result of download.
SetupSees(res) == res

\* The rest of setup_with_version: Ok(Tor { pid: None, path, version }), or the error.
SetupReturn(c) ==
  /\ cl[c].pc = "setup_return"
  /\ cl' = [cl EXCEPT ![c] =
       IF SetupSees(cl[c].dlres) = "Ok"
         THEN [IdleCaller EXCEPT !.result = "Ok",
                                 !.tor = Some([pid |-> None, version |-> cl[c].version])]
         ELSE [IdleCaller EXCEPT !.result = cl[c].dlres]]
  /\ UNCHANGED << homeDir, dirExists, dirCreatable, files, installed, calls >>
  /\ UNCHANGED << torVars, rvVars >>

\* ------------------------------------------------------- specification
\* The Tor value as setup_with_version builds it: Tor { pid: None, .. }.
TorInit ==
  /\ pid = None
  /\ pc = "idle"
  /\ children = << >>
  /\ foreign = None
  /\ stdoutBuf = << >>
  /\ loopExit = "none"
  /\ runResult = NoResult
  /\ killResult = "none"
  /\ lastSignal = None
  /\ dropped = FALSE
  /\ discarded = "none"
  /\ panicked = FALSE

\* No caller is in a call, nothing is in the download directory.
NoFiles == [p \in Paths |-> None]

\* No DownloadOptions::build on its own is under way.
NoBuild ==
  /\ options = None
  /\ index = [ok |-> FALSE, hrefs |-> << >>]
  /\ resolved = NotResolved
  /\ indexCalls = 0

\* The download directory as a completed setup leaves it.
Init ==
  /\ TorInit
  /\ NoBuild
  /\ homeDir = TRUE /\ dirExists = TRUE /\ dirCreatable = TRUE
  /\ files = [NoFiles EXCEPT ![TarballName(DefaultTarget, DEFAULT_VERSION)] =
                Some([ino |-> 0, data |-> << "tgz_a" >>])]
  /\ installed = Some("tgz_a")
  /\ cl = [c \in Callers |-> IdleCaller]
  /\ calls = 0

Next ==
  \/ \E ok \in BOOLEAN, p \in Pids : RunSpawn(ok, p)
  \/ RunReadLine
  \/ RunReadEof
  \/ RunCancel
  \/ Kill
  \/ Drop
  \/ \E c \in 1..MaxRuns, line \in Lines : ChildWrite(c, line)
  \/ \E c \in 1..MaxRuns : ChildExit(c)
  \/ \E c \in 1..MaxRuns : WaitReap(c)
  \/ \E p \in Pids, mine \in BOOLEAN : ForeignSpawn(p, mine)
  \/ ForeignExit

Spec == Init /\ [][Next]_vars

\* ------------------------------------- specifications of setup / download
\* Before any call: the download directory is there or not, and when it is,
\* an archive of an earlier installation may be in it.
SetupInit ==
  /\ TorInit
  /\ NoBuild
  /\ homeDir \in BOOLEAN /\ dirExists \in BOOLEAN
  /\ dirCreatable \in { b \in BOOLEAN : b \/ ~dirExists }
  /\ files \in { NoFiles } \cup
       { [NoFiles EXCEPT ![p] = Some([ino |-> 0, data |-> << "tgz_old" >>])] :
           p \in { q \in Paths : dirExists } }
  /\ installed = IF files = NoFiles THEN None ELSE Some("tgz_old")
  /\ cl = [c \in Callers |-> IdleCaller]
  /\ calls = 0

SetupNext(who) ==
  \E c \in who :
    \/ \E sel \in Selections : SetupCall(c, sel)
    \/ \E reply \in IndexReplies : Build(c, reply)
    \/ \E reply \in ArchiveReplies : Fetch(c, reply)
    \/ EnsureDir(c)
    \/ CreateDir(c)
    \/ CheckStale(c)
    \/ RemoveStale(c)
    \/ CreateFile(c)
    \/ \E ok \in BOOLEAN : CopyBytes(c, ok)
    \/ Extract(c)
    \/ SetupReturn(c)

\* One caller alone.
SoloNext == SetupNext({1})

SpecSetup == SetupInit /\ [][SoloNext]_vars

\* Callers of several supervisors on one download directory.
RaceNext == SetupNext(Callers)

SpecRace == SetupInit /\ [][RaceNext]_vars

\* ------------------------------------------- specification of the resolver
MaxHrefs == 3   \* anchors of an index page

\* href attributes an index page may hold.
Hrefs ==
  { << S(".."), Slash >>, << S("?C=N;O=D") >>,
    V_14_0_1 \o << Slash >>, DEFAULT_VERSION \o << Slash >>,
    V_14_5_0_alpha \o << Slash >>,
    << N(14), Dot, N(5), Dot, N(0), Dash, S("beta"), Slash >>,
    << N(15), Dot, N(0), Dot, N(0), Dash, S("rc"), Slash >>,
    << N(13), Dot, N(5), Slash >>,
    << N(14), Dot, N(0), S("a"), N(1), Slash, Slash >> }

\* The listing of tests and documentation: 14.0.1/, 14.0.4/, 14.5.0-alpha/, ../
ExampleListing ==
  << V_14_0_1 \o << Slash >>, DEFAULT_VERSION \o << Slash >>,
     V_14_5_0_alpha \o << Slash >>, << S(".."), Slash >> >>

Listings ==
  UNION { [1..n -> Hrefs] : n \in 0..MaxHrefs } \cup { ExampleListing }

\* Options a caller may build with: none, or one of the selections.
OptionsSet ==
  { None, Some(Latest), Some(Stable), Some(Version(DEFAULT_VERSION)),
    Some(Version(V_14_5_0_alpha)), Some(Version(<< S("nightly") >>)) }

ResolveInit ==
  /\ TorInit
  /\ homeDir = TRUE /\ dirExists = FALSE /\ dirCreatable = TRUE
  /\ files = NoFiles /\ installed = None
  /\ cl = [c \in Callers |-> IdleCaller]
  /\ calls = 0
  /\ options \in OptionsSet
  /\ index \in { [ok |-> FALSE, hrefs |-> << >>] } \cup
               { [ok |-> TRUE, hrefs |-> h] : h \in Listings }
  /\ resolved = NotResolved
  /\ indexCalls = 0

ResolveNext == BuildResolves

SpecResolve == ResolveInit /\ [][ResolveNext]_vars

\* ================================================================ claims
NoActiveProcess == "No process for Tor avaialable."

\* C1: run returns Ok(pid) only after it read a stdout line that contains the
\* marker; when stdout ends before such a line was read, run returns an error.
C1_RunOkOnlyAfterMarker ==
  /\ runResult.status = "Ok" => loopExit = "break"
  /\ loopExit = "eof" => runResult.status = "Err"

\* C2: the recorded identifier goes None -> Some(pid) -> None: a kill that
\* terminated the process clears it, and a kill issued once the recorded
\* process was already killed fails with the no-active-process error and
\* sends no signal.
C2_PidLifecycle ==
  [][Kill =>
       /\ killResult' = "Ok" => pid' = None
       /\ (pid # None /\ children[Cur].sig) =>
             killResult' = NoActiveProcess /\ lastSignal' = None]_vars

\* C3: at most one child spawned by the instance is alive at any time.
C3_AtMostOneLiveChild == Cardinality(Live) <= 1

\* C4: while a child is alive its stdout is being read, also after run
\* returned: no write of a live child meets a pipe without a reader.
C4_StdoutDrainedWhileAlive ==
  \A c \in DOMAIN children :
     children[c].st = "running" => children[c].rd = "open" /\ ~children[c].wfail

C6_DropSwallowsKill ==
  [][/\ (~dropped /\ dropped') =>
           /\ discarded' \in {"Ok", "ESRCH", "EPERM", NoActiveProcess}
           /\ discarded' = "Ok" <=> (pid # None /\ InUse(pid[1]) /\ MaySignal(pid[1]))
           /\ lastSignal' = pid
           /\ ~panicked'
           /\ runResult' = runResult /\ killResult' = killResult
     /\ dropped =>
           /\ dropped' /\ ~panicked'
           /\ discarded' = discarded /\ lastSignal' = lastSignal
           /\ runResult' = runResult /\ killResult' = killResult]_vars

\* The Tor was dropped after a successful run whose child was already gone:
\* the kill of the drop failed and nothing came of it.
C6_Witness ==
  /\ dropped /\ discarded = "ESRCH" /\ ~panicked
  /\ runResult.status = "Ok"

\* C7: while run waits for readiness the identifier of the child it spawned
\* is already recorded, and after a successful run the identifier returned,
\* the one recorded and the one of the spawned child are the same.
C7_PidMatches ==
  /\ pc = "reading" => pid = Some(children[Cur].pid)
  /\ runResult.status = "Ok" =>
        /\ runResult.pid = pid
        /\ pid = Some(children[Cur].pid)

\* A second run on the instance returned successfully.
C7_Witness ==
  /\ runResult.status = "Ok" /\ loopExit = "break"
  /\ Len(children) = 2 /\ children[1].pid # children[2].pid

\* The step of caller c that ends its setup_with_version call.
SetupEnds(c) == cl[c].pc # "idle" /\ cl'[c].pc = "idle"

\* C8: a Tor value is produced only by a setup call whose version resolution,
\* fetch, store and extraction all succeeded, and it has no process
\* identifier; a call in which one of them failed returns an error and
\* produces no Tor.
C8_TorOnlyAfterSetup ==
  [][\A c \in Callers :
       /\ cl'[c].tor # None =>
            /\ cl'[c].result = "Ok"
            /\ \/ cl'[c] = cl[c]
               \/ /\ SetupEnds(c)
                  /\ cl[c].done = Stages /\ cl[c].dlres = "Ok"
                  /\ cl'[c].tor = Some([pid |-> None, version |-> cl[c].version])
       /\ (SetupEnds(c) /\ cl[c].done # Stages) =>
            /\ cl'[c].tor = None
            /\ cl'[c].result \notin {"Ok", "none"}]_vars

\* One setup produced a Tor; another one failed in its download and produced none.
C8_Witness ==
  \E c, d \in Callers :
    /\ cl[c].tor # None /\ cl[c].result = "Ok"
    /\ cl[d].tor = None /\ cl[d].pc = "idle"
    /\ cl[d].result \in { "invalid gzip header", "Failed to create output tarball file.",
                          "Failed to download Tor Expert Bundle from origin." }

\* C9: with one caller, once the store step of download has succeeded, and so
\* after a successful download, the file at the archive path is the file this
\* call created and holds exactly the bytes this call fetched.
C9_ArchiveIsTheFetchedBytes ==
  \A c \in Callers :
    (cl[c].pc = "extract" \/ (cl[c].pc = "setup_return" /\ cl[c].dlres = "Ok")) =>
       files[TarballPath(c)] = Some([ino |-> c, data |-> << cl[c].bytes >>])

\* A download succeeded that had found an archive at the path and deleted it.
C9_Witness ==
  \E c \in Callers :
    /\ cl[c].pc = "setup_return" /\ cl[c].dlres = "Ok" /\ cl[c].stale
    /\ files[TarballPath(c)] = Some([ino |-> c, data |-> << "tgz_a" >>])

\* The step of caller c that calls File::create_new.
CreateStep(c) == cl[c].pc = "create" /\ cl'[c].pc # "create"

\* C10: the creation step fails when the archive path exists at that moment
\* and changes nothing then; when it succeeds the file is a new, empty one of
\* this caller. A caller's handle is only ever on a file it created itself,
\* and its write leaves the files that others created as they are.
C10_CreateIsExclusive ==
  [][\A c \in Callers :
       /\ CreateStep(c) =>
            IF files[TarballPath(c)] # None
              THEN /\ cl'[c].dlres = "Failed to create output tarball file."
                   /\ cl'[c].fd = None
                   /\ files' = files
              ELSE /\ cl'[c].pc = "copy" /\ cl'[c].fd = Some(c)
                   /\ files' = [files EXCEPT ![TarballPath(c)] =
                                  Some([ino |-> c, data |-> << >>])]
       /\ cl'[c].fd # None => cl'[c].fd = Some(c)
       /\ (cl[c].pc = "copy" /\ cl'[c].pc # "copy") =>
            \A p \in Paths :
               (files[p] # None /\ files[p][1].ino # c) => files'[p] = files[p]]_vars

\* Another caller created the archive between this caller's look for a stale
\* archive and its own creation: the creation failed.
C10_Witness ==
  \E c, d \in Callers :
    /\ c # d
    /\ cl[c].pc = "setup_return" /\ cl[c].dlres = "Failed to create output tarball file."
    /\ cl[d].version = cl[c].version
    /\ files[TarballPath(c)] # None /\ files[TarballPath(c)][1].ino = d

\* The step of caller c that ends its download() call.
DownloadReturns(c) == cl[c].pc # "setup_return" /\ cl'[c].pc = "setup_return"

\* C11: with one caller, a download that begins on the directory an earlier
\* successful download of the same archive (same version, same bytes served)
\* left does its own fetch, store and extraction, succeeds unless the device
\* fails the write, and leaves the directory as it found it: the directory
\* is there, the archive at the path holds the same bytes, the same
\* installation is unpacked, no other file is changed.
C11_DownloadIdempotent ==
  [][\A c \in Callers :
       (cl[c].again /\ cl[c].pc # "setup_return") =>
          /\ dirExists' = dirExists
          /\ \A p \in Paths \ { TarballPath(c) } : files'[p] = files[p]
          /\ (DownloadReturns(c) /\ cl'[c].dlres # "Failed to copy output bytes.") =>
                /\ cl'[c].dlres = "Ok"
                /\ { "fetch", "store", "extract" } \subseteq cl'[c].done
                /\ cl'[c].stale
                /\ AsDownloaded(TarballPath(c), cl[c].bytes)']_vars

\* A second download of the same archive has succeeded.
C11_Witness ==
  \E c \in Callers :
    /\ cl[c].again /\ cl[c].pc = "setup_return" /\ cl[c].dlres = "Ok"
    /\ AsDownloaded(TarballPath(c), cl[c].bytes)

\* The errors of the fetch step of download().
FetchErrors == { FetchError(r) : r \in { x \in ArchiveReplies : ~x.ok } }

\* The bodies the archive endpoint sends with a success status.
SuccessBodies == { r.body : r \in { x \in ArchiveReplies : x.ok /\ x.status \in 200..299 } }

\* C12: the fetch step of download either goes on to the store step with the
\* body of a success response, or ends the download with a fetch error and
\* neither store nor extraction done; a body that came with a non-success
\* status is never taken to the store step.
C12_FetchFailsOnErrorOrStatus ==
  [][\A c \in Callers :
       (cl[c].pc = "fetch" /\ cl'[c].pc # "fetch") =>
          \/ /\ cl'[c].pc = "ensure_dir"
             /\ cl'[c].bytes \in SuccessBodies
          \/ /\ cl'[c].pc = "setup_return"
             /\ cl'[c].dlres \in FetchErrors
             /\ cl'[c].done \cap { "store", "extract" } = {}
             /\ UNCHANGED << dirExists, files, installed >>]_vars

\* Caller c is in the directory-ensure step of store_downloaded_assets.
InEnsure(c) == cl[c].pc \in { "ensure_dir", "create_dir" }

\* C13: the directory-ensure step ends either with the download directory
\* in place, going on to the rest of the store step, or with the
\* create-directory error, and with that error only when the directory does
\* not exist at that moment and cannot be created; a directory that exists
\* when the step needs it is never an error.
C13_EnsureDirToleratesExisting ==
  [][\A c \in Callers :
       (InEnsure(c) /\ ~InEnsure(c)') =>
          \/ /\ cl'[c].pc = "check_stale"
             /\ dirExists'
          \/ /\ cl'[c].pc = "setup_return"
             /\ cl'[c].dlres = "Failed to create download directory."
             /\ ~dirExists /\ ~dirCreatable]_vars

\* The name holds one of the pre-release markers.
IsPreRelease(v) ==
  \E m \in { "alpha", "beta", "rc" } : \E i \in 1..Len(v) : v[i] = S(m)

\* C14: resolving Stable never returns a name that holds "alpha", "beta" or
\* "rc"; and resolving Latest or Stable on a listing of which nothing is
\* left after the filters (no version directory at all, or for Stable only
\* pre-release ones) fails with the no-versions error and returns no version.
C14_StableAndNoVersions ==
  (resolved # NotResolved /\ options # None /\ options[1].tag # "Version" /\ index.ok) =>
     /\ (resolved.ok /\ options[1] = Stable) => ~IsPreRelease(resolved.version)
     /\ (\A i \in 1..Len(index.hrefs) :
            LET h == index.hrefs[i]
            IN \/ h[Len(h)] # Slash
               \/ h = << S(".."), Slash >>
               \/ (options[1] = Stable /\ IsPreRelease(h)))
          => (~resolved.ok /\ resolved.err = "No valid versions found"
                           /\ resolved.version = << >>)

\* Stable was resolved on a listing that holds only pre-release versions, and failed.
C14_Witness ==
  /\ options = Some(Stable) /\ index.ok /\ Len(index.hrefs) >= 2
  /\ \A i \in 1..Len(index.hrefs) : IsPreRelease(index.hrefs[i])
  /\ resolved.err = "No valid versions found"

\* The names that resolve_version chooses from, for the selection and listing.
Candidates(selection, hrefs) ==
  SelectSeq(FetchTorVersions(hrefs), LAMBDA v : KeepVersion(selection, v))

\* a is not below b in the ordering of resolve_version.
NotBelow(a, b) == SemverCmp(SemverOrZero(a), SemverOrZero(b)) >= 0

\* Latest or Stable has been resolved on a listing that left some entry.
ResolvedFromListing ==
  /\ resolved # NotResolved /\ options # None /\ options[1].tag # "Version"
  /\ index.ok /\ Candidates(options[1], index.hrefs) # << >>

\* The resolution succeeded with a maximum of the remaining entries.
ResolvedIsMaximum ==
  LET cands == Candidates(options[1], index.hrefs)
  IN /\ resolved.ok
     /\ \E k \in 1..Len(cands) : cands[k] = resolved.version
     /\ \A k \in 1..Len(cands) : NotBelow(resolved.version, cands[k])

\* What resolution gave for the example listing.
ExampleResolved ==
  (resolved # NotResolved /\ index = [ok |-> TRUE, hrefs |-> ExampleListing]) =>
     /\ options = Some(Stable) => (resolved.ok /\ resolved.version = DEFAULT_VERSION)
     /\ options = Some(Latest) => (resolved.ok /\ resolved.version = V_14_5_0_alpha)

\* C15 as stated: the result of Latest and Stable is a maximum of the
\* remaining entries in semantic-version order with unparsable names counted
\* as 0.0.0, resolution does not fail when an entry remains, an unparsable
\* name is the result only when it is the only remaining entry, and the
\* example listing gives 14.0.4 for Stable and 14.5.0-alpha for Latest.
C15_MaxSemver ==
  /\ ResolvedFromListing =>
       /\ ResolvedIsMaximum
       /\ ~SemverParses(resolved.version) =>
             \A k \in 1..Len(Candidates(options[1], index.hrefs)) :
                Candidates(options[1], index.hrefs)[k] = resolved.version
  /\ ExampleResolved

\* C15, amended: as above, but an unparsable name is the result whenever no
\* remaining entry parses to a version above 0.0.0, also when several
\* entries remain; of the entries that are maxima the last listed is the
\* result.
C15_MaxSemverLastOfMaxima ==
  /\ ResolvedFromListing =>
       LET cands == Candidates(options[1], index.hrefs)
       IN /\ ResolvedIsMaximum
          /\ ~SemverParses(resolved.version) =>
                \A k \in 1..Len(cands) :
                   SemverParses(cands[k]) =>
                      SemverCmp(SemverOrZero(cands[k]), Version000) <= 0
          /\ \E k \in 1..Len(cands) :
                /\ cands[k] = resolved.version
                /\ \A j \in (k + 1)..Len(cands) : ~NotBelow(cands[j], resolved.version)
  /\ ExampleResolved

\* Several names were left, none of them a semantic version: one of them is
\* the result.
C15_Witness ==
  /\ ResolvedFromListing
  /\ \E k \in 1..Len(Candidates(options[1], index.hrefs)) :
        Candidates(options[1], index.hrefs)[k] # resolved.version
  /\ resolved.ok /\ ~SemverParses(resolved.version)

\* C16: a pinned version resolves to exactly the given name, and no version
\* selection resolves to "14.0.4", both whatever the index holds and without
\* a request to it; resolving Latest or Stable makes exactly one request.
C16_PinnedAsksNoIndex ==
  resolved # NotResolved =>
     /\ options = None =>
           /\ resolved.ok /\ resolved.version = << N(14), Dot, N(0), Dot, N(4) >>
           /\ indexCalls = 0
     /\ (options # None /\ options[1].tag = "Version") =>
           /\ resolved.ok /\ resolved.version = options[1].v
           /\ indexCalls = 0
     /\ (options # None /\ options[1].tag \in { "Latest", "Stable" }) => indexCalls = 1

\* A pinned name that is no version was resolved while the index was out of reach.
C16_Witness ==
  /\ options = Some(Version(<< S("nightly") >>)) /\ ~index.ok
  /\ resolved.ok /\ resolved.version = << S("nightly") >> /\ indexCalls = 0

\* C17: once the Tor has been dropped, every child that its run calls
\* spawned has been sent SIGKILL by a kill of this Tor, unless the child had
\* ended by itself before: no spawned child is still running unsignalled.
C17_EveryChildSignalled ==
  dropped =>
     \A c \in 1..Len(children) : children[c].sig \/ children[c].st # "running"

\* Caller c takes a step of a call that has not come to the store step, or
\* that returns from a failed fetch.
BeforeStore(c) ==
  /\ cl'[c] # cl[c]
  /\ \/ cl[c].pc \in { "idle", "build", "fetch" }
     \/ cl[c].pc = "setup_return" /\ cl[c].dlres \in FetchErrors

\* C18: a download whose fetch fails with a transport error ends there, with
\* the fetch error, and the call has by then, and until it returns, changed
\* nothing in the file system: the download directory is not created, no
\* archive is deleted, changed or created, nothing is unpacked. The store
\* step is only reached with the body of a response that was received.
C18_FailedFetchTouchesNothing ==
  [][\A c \in Callers :
       /\ BeforeStore(c) => UNCHANGED << dirExists, files, installed >>
       /\ (cl[c].pc = "fetch" /\ cl'[c].pc = "setup_return") =>
             /\ cl'[c].dlres \in FetchErrors
             /\ cl'[c].done \cap { "store", "extract" } = {}
       /\ (cl[c].pc = "fetch" /\ cl'[c].pc \notin { "fetch", "setup_return" }) =>
             cl'[c].bytes \in { r.body : r \in { x \in ArchiveReplies : x.ok } }
       /\ (cl[c].pc = "setup_return" /\ cl[c].dlres \in FetchErrors /\ cl'[c].pc = "idle") =>
             /\ cl'[c].result = cl[c].dlres
             /\ cl'[c].tor = None]_vars

\* A fetch failed while the archive of an earlier installation was at the
\* archive path: the archive and the installation are still there.
C18_Witness ==
  \E c \in Callers :
    /\ cl[c].pc = "setup_return" /\ cl[c].dlres \in FetchErrors
    /\ files[TarballPath(c)] = Some([ino |-> 0, data |-> << "tgz_old" >>])
    /\ installed = Some("tgz_old")

====
